---- MODULE Spec2Model ----
(***************************************************************************)
(* A model of teleword (src/teleword.py): the TelegramBotAPI client, its   *)
(* transport make_http_request, the multipart encoder                      *)
(* encode_multipart_formdata and the pre-flight check sanity_check_upload. *)
(*                                                                         *)
(* Three specifications share the module:                                  *)
(*   Spec        the client: one remote call at a time, stepped through    *)
(*               _call_api and make_http_request;                          *)
(*   SpecEncode  encode_multipart_formdata applied to bounded inputs;      *)
(*   SpecUpload  sanity_check_upload applied to bounded inputs.            *)
(* Python values are tagged records; byte strings are sequences of 0..255. *)
(***************************************************************************)
EXTENDS Integers, Sequences, FiniteSets, TLC

VARIABLES
    \* ---- TelegramBotAPI: the session state (self.*) ----
    token, chat_id, insecure, silent, parse_mode,
    \* ---- the interpreter the module runs on (line 131) ----
    py34,
    \* ---- the remote call in progress ----
    pc,            \* position of the one thread of control
    call,          \* the operation called and its arguments
    data,          \* _call_api's data argument: an envelope, or None (NoData)
    attachments,   \* _call_api's attachments argument, in insertion order
    files,         \* _call_api's files dict, in insertion order
    fp,            \* the attachment handle open in the with block, or None
    cafile_path,   \* _call_api's cafile_path: Unset until line 262/265
    conn,          \* make_http_request's connection and its SSL context
    request,       \* what make_http_request handed to the encoder
    sent,          \* the request bytes put on the wire, by segment
    status_code, response,   \* what make_http_request returned (0: nothing yet)
    result,        \* how the operation ended, as its caller sees it
    \* ---- the filesystem ----
    tmpFiles,      \* temporary files that exist (named by the call that made them)
    ncalls,        \* remote operations started
    setterCalled,  \* whether any setter has run on this client
    \* ---- encode_multipart_formdata (SpecEncode) ----
    e_pc, e_data, e_files, e_boundary, e_body,
    \* ---- sanity_check_upload (SpecUpload) ----
    u_pc, u_expected, u_path, u_size, u_limit, u_result

session == <<token, chat_id, insecure, silent, parse_mode>>
callVars == <<pc, call, data, attachments, files, fp, cafile_path, conn,
              request, sent, status_code, response, result>>
clientVars == <<session, py34, callVars, tmpFiles, ncalls, setterCalled>>
encodeVars == <<e_pc, e_data, e_files, e_boundary, e_body>>
uploadVars == <<u_pc, u_expected, u_path, u_size, u_limit, u_result>>
vars == <<clientVars, encodeVars, uploadVars>>

-----------------------------------------------------------------------------
(* Bounds of the model. *)

\* Remote operations one client performs in a behaviour.
MaxCalls == 2

-----------------------------------------------------------------------------
(* Python values. *)

None == "None"
Unset == "Unset"

PyNone == [t |-> "None"]
PyBool(b) == [t |-> "bool", b |-> b]
PyInt(n) == [t |-> "int", n |-> n]
PyStr(s) == [t |-> "str", s |-> s]

\* Truthiness of an optional string (None and "" are falsy).
Truthy(s) == s # None /\ s # ""

\* dict[k] = v on an insertion-ordered dict held as a sequence of pairs.
DictSet(d, k, v) ==
    IF \E i \in 1..Len(d) : d[i].k = k
    THEN [i \in 1..Len(d) |-> IF d[i].k = k THEN [k |-> k, v |-> v] ELSE d[i]]
    ELSE Append(d, [k |-> k, v |-> v])

DictHas(d, k) == \E i \in 1..Len(d) : d[i].k = k

DictGet(d, k) == d[CHOOSE i \in 1..Len(d) : d[i].k = k].v

-----------------------------------------------------------------------------
(* Byte strings: bytes.decode() and json.loads as _call_api and get_me use *)
(* them (lines 281, 286, 297).                                             *)

\* Whether b[i] is a UTF-8 continuation byte.
IsCont(b, i) == i <= Len(b) /\ b[i] >= 128 /\ b[i] <= 191

\* Length of the well-formed UTF-8 sequence starting at b[i], or 0 if none.
Utf8SeqLen(b, i) ==
    LET c == b[i] IN
    IF c <= 127 THEN 1
    ELSE IF c >= 194 /\ c <= 223
         THEN (IF IsCont(b, i + 1) THEN 2 ELSE 0)
    ELSE IF c >= 224 /\ c <= 239
         THEN (IF /\ IsCont(b, i + 1) /\ IsCont(b, i + 2)
                  /\ (c = 224 => b[i + 1] >= 160)
                  /\ (c = 237 => b[i + 1] <= 159)
               THEN 3 ELSE 0)
    ELSE IF c >= 240 /\ c <= 244
         THEN (IF /\ IsCont(b, i + 1) /\ IsCont(b, i + 2) /\ IsCont(b, i + 3)
                  /\ (c = 240 => b[i + 1] >= 144)
                  /\ (c = 244 => b[i + 1] <= 143)
               THEN 4 ELSE 0)
    ELSE 0

RECURSIVE Utf8ValidFrom(_, _)
Utf8ValidFrom(b, i) ==
    IF i > Len(b) THEN TRUE
    ELSE LET n == Utf8SeqLen(b, i) IN
         IF n = 0 THEN FALSE ELSE Utf8ValidFrom(b, i + n)

\* Whether response.decode() returns (it raises UnicodeDecodeError otherwise).
DecodeOk(b) == Utf8ValidFrom(b, 1)

\* ---- json.loads, for documents of objects, arrays, strings without
\* ---- escapes, integers and the three literals.
JFail == [ok |-> FALSE, v |-> PyNone, i |-> 0]
JOk(v, i) == [ok |-> TRUE, v |-> v, i |-> i]

IsWs(c) == c \in {32, 9, 10, 13}
IsDigit(c) == c >= 48 /\ c <= 57

RECURSIVE SkipWs(_, _)
SkipWs(b, i) == IF i <= Len(b) /\ IsWs(b[i]) THEN SkipWs(b, i + 1) ELSE i

StartsAt(b, i, pat) ==
    /\ i >= 1
    /\ i + Len(pat) - 1 <= Len(b)
    /\ SubSeq(b, i, i + Len(pat) - 1) = pat

\* A string body from b[i] up to the closing quote.
RECURSIVE JString(_, _, _)
JString(b, i, acc) ==
    IF i > Len(b) THEN JFail
    ELSE IF b[i] = 34 THEN JOk([t |-> "jstr", bytes |-> acc], i + 1)
    ELSE IF b[i] = 92 \/ b[i] < 32 THEN JFail
    ELSE JString(b, i + 1, Append(acc, b[i]))

RECURSIVE JDigits(_, _, _)
JDigits(b, i, n) ==
    IF i <= Len(b) /\ IsDigit(b[i])
    THEN JDigits(b, i + 1, 10 * n + (b[i] - 48))
    ELSE JOk(PyInt(n), i)

JNumber(b, i) ==
    IF i > Len(b) \/ ~IsDigit(b[i]) THEN JFail
    ELSE IF b[i] = 48 THEN JOk(PyInt(0), i + 1)
    ELSE JDigits(b, i, 0)

RECURSIVE JValue(_, _), JMembers(_, _, _), JElements(_, _, _)
JValue(b, i0) ==
    LET i == SkipWs(b, i0) IN
    IF i > Len(b) THEN JFail
    ELSE IF b[i] = 123 THEN        \* {
        LET j == SkipWs(b, i + 1) IN
        IF j <= Len(b) /\ b[j] = 125
        THEN JOk([t |-> "object", kv |-> <<>>], j + 1)
        ELSE JMembers(b, j, <<>>)
    ELSE IF b[i] = 91 THEN         \* [
        LET j == SkipWs(b, i + 1) IN
        IF j <= Len(b) /\ b[j] = 93
        THEN JOk([t |-> "array", items |-> <<>>], j + 1)
        ELSE JElements(b, j, <<>>)
    ELSE IF b[i] = 34 THEN JString(b, i + 1, <<>>)
    ELSE IF b[i] = 45 THEN         \* -
        LET r == JNumber(b, i + 1) IN
        IF r.ok THEN JOk(PyInt(0 - r.v.n), r.i) ELSE JFail
    ELSE IF IsDigit(b[i]) THEN JNumber(b, i)
    ELSE IF StartsAt(b, i, <<116, 114, 117, 101>>) THEN JOk(PyBool(TRUE), i + 4)
    ELSE IF StartsAt(b, i, <<102, 97, 108, 115, 101>>) THEN JOk(PyBool(FALSE), i + 5)
    ELSE IF StartsAt(b, i, <<110, 117, 108, 108>>) THEN JOk(PyNone, i + 4)
    ELSE JFail

\* "key": value pairs from b[i] (at a key) up to the closing brace.
JMembers(b, i, acc) ==
    IF i > Len(b) \/ b[i] # 34 THEN JFail
    ELSE LET k == JString(b, i + 1, <<>>) IN
         IF ~k.ok THEN JFail
         ELSE LET c == SkipWs(b, k.i) IN
              IF c > Len(b) \/ b[c] # 58 THEN JFail
              ELSE LET v == JValue(b, c + 1) IN
                   IF ~v.ok THEN JFail
                   ELSE LET e == SkipWs(b, v.i)
                            nacc == DictSet(acc, k.v.bytes, v.v)
                        IN IF e > Len(b) THEN JFail
                           ELSE IF b[e] = 125
                                THEN JOk([t |-> "object", kv |-> nacc], e + 1)
                           ELSE IF b[e] = 44
                                THEN JMembers(b, SkipWs(b, e + 1), nacc)
                           ELSE JFail

JElements(b, i, acc) ==
    LET v == JValue(b, i) IN
    IF ~v.ok THEN JFail
    ELSE LET e == SkipWs(b, v.i)
             nacc == Append(acc, v.v)
         IN IF e > Len(b) THEN JFail
            ELSE IF b[e] = 93 THEN JOk([t |-> "array", items |-> nacc], e + 1)
            ELSE IF b[e] = 44 THEN JElements(b, e + 1, nacc)
            ELSE JFail

\* json.loads(b): ok is FALSE where it raises JSONDecodeError.
JsonLoads(b) ==
    LET r == JValue(b, 1) IN
    IF r.ok /\ SkipWs(b, r.i) = Len(b) + 1 THEN r ELSE JFail

\* The bytes of "result".
ResultKey == <<114, 101, 115, 117, 108, 116>>

\* json.loads(response)["result"] of get_me: the value, or the exception.
JsonResult(b) ==
    LET r == JsonLoads(b) IN
    IF ~r.ok THEN [ok |-> FALSE, exc |-> "JSONDecodeError", v |-> PyNone]
    ELSE IF r.v.t # "object" THEN [ok |-> FALSE, exc |-> "TypeError", v |-> PyNone]
    ELSE IF ~DictHas(r.v.kv, ResultKey)
         THEN [ok |-> FALSE, exc |-> "KeyError", v |-> PyNone]
    ELSE [ok |-> TRUE, exc |-> None, v |-> DictGet(r.v.kv, ResultKey)]

-----------------------------------------------------------------------------
(* The world the client runs in: inputs the operations are called with,    *)
(* the files they read, the servers they reach.                            *)

Tokens == {"123:abc"}
ChatIds == {1, 2}
ParseModes == {"", "markdown"}
Texts == {"", "hello"}
Captions == {None, "", "cap"}
Paths == {"/tmp/p.jpg", "/tmp/v.mp4"}

\* os.path.split(path)[1]
Basename(path) == IF path = "/tmp/p.jpg" THEN "p.jpg" ELSE "v.mp4"

\* The bytes stored at path.
FileContents(path) == IF path = "/tmp/p.jpg" THEN <<255, 216, 255>> ELSE <<0, 0>>

\* The root a server's certificate chain ends in.
ServerCerts == {"godaddy", "otherca", "selfsigned"}
\* The roots GODADDY_ROOT_CERTIFICATE holds, and those of the system store.
PinnedRoots == {"godaddy"}
SystemRoots == {"godaddy", "otherca"}

Statuses == {200, 400}
Bodies == {
    \* {"ok":true,"result":{"id":1,"username":"bot1"}}
    <<123, 34, 111, 107, 34, 58, 116, 114, 117, 101, 44, 34, 114, 101, 115,
      117, 108, 116, 34, 58, 123, 34, 105, 100, 34, 58, 49, 44, 34, 117, 115,
      101, 114, 110, 97, 109, 101, 34, 58, 34, 98, 111, 116, 49, 34, 125, 125>>,
    \* {"ok":false}
    <<123, 34, 111, 107, 34, 58, 102, 97, 108, 115, 101, 125>>,
    \* Bad Request
    <<66, 97, 100, 32, 82, 101, 113, 117, 101, 115, 116>>,
    \* one byte that is not UTF-8
    <<255>> }

NoResult == [kind |-> "none", exc |-> None, v |-> PyNone]
Returned(v) == [kind |-> "return", exc |-> None, v |-> v]
Raised(e) == [kind |-> "raise", exc |-> e, v |-> PyNone]

\* No connection object yet, and no call of the encoder yet.
NoConn == [state |-> "none", verify |-> FALSE, anchors |-> {}, peer |-> None]
NoRequest == [made |-> FALSE, method |-> None, data |-> <<>>, files |-> <<>>]

\* The names mkstemp gives out, one per call.
TmpName(n) == <<"/tmp/tmpa", "/tmp/tmpb", "/tmp/tmpc", "/tmp/tmpd">>[n]

\* The data argument: None, or an envelope.
NoData == [isNone |-> TRUE, items |-> <<>>]
Data(envelope) == [isNone |-> FALSE, items |-> envelope]

NoCall == [op |-> None, cid |-> 0, text |-> None, path |-> None,
           caption |-> None, streaming |-> FALSE]

-----------------------------------------------------------------------------
(* TelegramBotAPI *)

\* A constructor that starts with notifications suppressed.
TelegramBotAPI_silent(tok, cid) ==
    [token |-> tok, insecure |-> FALSE, silent |-> TRUE,
     parse_mode |-> None, chat_id |-> cid]

\* __init__: the session state of a new client.
TelegramBotAPI(tok, cid) ==
    [token |-> tok, insecure |-> FALSE, silent |-> FALSE,
     parse_mode |-> None, chat_id |-> cid]

IdleCall ==
    /\ pc = "idle" /\ call = NoCall /\ data = NoData /\ attachments = <<>>
    /\ files = <<>> /\ fp = None /\ cafile_path = Unset /\ conn = NoConn
    /\ request = NoRequest /\ sent = <<>> /\ status_code = 0
    /\ response = <<>> /\ result = NoResult

EncodeIdle ==
    /\ e_pc = "off" /\ e_data = <<>> /\ e_files = <<>>
    /\ e_boundary = <<>> /\ e_body = <<>>

UploadIdle ==
    /\ u_pc = "off" /\ u_expected = None /\ u_path = None
    /\ u_size = 0 /\ u_limit = 0 /\ u_result = NoResult

Init ==
    /\ \E tok \in Tokens, cid \in ChatIds :
         LET self == TelegramBotAPI(tok, cid) IN
         /\ token = self.token
         /\ chat_id = self.chat_id
         /\ insecure = self.insecure
         /\ silent = self.silent
         /\ parse_mode = self.parse_mode
    /\ py34 \in BOOLEAN
    /\ IdleCall
    /\ tmpFiles = {}
    /\ ncalls = 0
    /\ setterCalled = FALSE
    /\ EncodeIdle
    /\ UploadIdle

Setter ==
    /\ pc = "idle"
    /\ setterCalled' = TRUE
    /\ UNCHANGED <<token, chat_id, py34, callVars, tmpFiles, ncalls,
                   encodeVars, uploadVars>>

enable_insecure_connection ==
    /\ Setter
    /\ insecure' = TRUE
    /\ UNCHANGED <<silent, parse_mode>>

disable_notifications ==
    /\ Setter
    /\ silent' = TRUE
    /\ UNCHANGED <<insecure, parse_mode>>

enable_notifications ==
    /\ Setter
    /\ silent' = FALSE
    /\ UNCHANGED <<insecure, parse_mode>>

set_parse_mode(mode) ==
    /\ Setter
    /\ parse_mode' = mode
    /\ UNCHANGED <<insecure, silent>>

\* An envelope whose silence flag is stringified the wrong way round.
_generate_envelope_inverted ==
    LET envelope ==
            <<[k |-> "disable_notifications",
               v |-> PyStr(IF silent THEN "false" ELSE "true")],
              [k |-> "chat_id", v |-> PyInt(chat_id)]>>
    IN IF Truthy(parse_mode)
       THEN DictSet(envelope, "parse_mode", PyStr(parse_mode))
       ELSE envelope

_generate_envelope ==
    LET envelope ==
            <<[k |-> "disable_notifications",
               v |-> PyStr(IF silent THEN "true" ELSE "false")],
              [k |-> "chat_id", v |-> PyInt(chat_id)]>>
    IN IF Truthy(parse_mode)
       THEN DictSet(envelope, "parse_mode", PyStr(parse_mode))
       ELSE envelope

\* _call_api, lines 252-255: the arguments are bound and the attachment
\* loop is entered.
_call_api(method_name, d, atts) ==
    /\ pc = "idle"
    /\ ncalls < MaxCalls
    /\ ncalls' = ncalls + 1
    /\ data' = d
    /\ attachments' = atts
    /\ files' = <<>>
    /\ pc' = IF atts = <<>> THEN "trust" ELSE "open"
    /\ UNCHANGED <<py34, fp, cafile_path, conn, request, sent, status_code,
                   response, result, tmpFiles, setterCalled,
                   encodeVars, uploadVars>>

get_me ==
    /\ call' = [NoCall EXCEPT !.op = "getMe"]
    /\ _call_api("getMe", NoData, <<>>)
    /\ UNCHANGED session

\* A send_message that adopts its chat_id argument as the recipient.
send_message_rebinds(cid, text) ==
    /\ call' = [NoCall EXCEPT !.op = "sendMessage", !.cid = cid, !.text = text]
    /\ _call_api("sendMessage",
                 Data(DictSet(_generate_envelope, "text", PyStr(text))), <<>>)
    /\ chat_id' = cid
    /\ UNCHANGED <<token, insecure, silent, parse_mode>>

send_message(cid, text) ==
    /\ call' = [NoCall EXCEPT !.op = "sendMessage", !.cid = cid, !.text = text]
    /\ _call_api("sendMessage",
                 Data(DictSet(_generate_envelope, "text", PyStr(text))), <<>>)
    /\ UNCHANGED session

send_photo(cid, path, caption) ==
    /\ call' = [NoCall EXCEPT !.op = "sendPhoto", !.cid = cid, !.path = path,
                              !.caption = caption]
    /\ _call_api("sendPhoto",
                 Data(IF Truthy(caption)
                      THEN DictSet(_generate_envelope, "caption", PyStr(caption))
                      ELSE _generate_envelope),
                 <<[field |-> "photo", path |-> path]>>)
    /\ UNCHANGED session

send_video(cid, path, caption, streaming) ==
    /\ call' = [NoCall EXCEPT !.op = "sendVideo", !.cid = cid, !.path = path,
                              !.caption = caption, !.streaming = streaming]
    /\ LET m1 == IF Truthy(caption)
                 THEN DictSet(_generate_envelope, "caption", PyStr(caption))
                 ELSE _generate_envelope
           m2 == IF streaming
                 THEN DictSet(m1, "supports_streaming", PyBool(TRUE))
                 ELSE m1
       IN _call_api("sendVideo", Data(m2), <<[field |-> "video", path |-> path]>>)
    /\ UNCHANGED session

-----------------------------------------------------------------------------
(* _call_api and make_http_request, step by step. Every step that can fail *)
(* takes the outcome as an input.                                          *)

\* What no step of a call changes.
StepFrame ==
    UNCHANGED <<session, py34, call, data, attachments, ncalls, setterCalled,
                encodeVars, uploadVars>>

\* An exception leaves _call_api before the try statement of line 269.
RaiseBeforeTry(e) ==
    /\ pc' = "done"
    /\ result' = Raised(e)
    /\ UNCHANGED tmpFiles

\* An exception leaves the try statement: the finally clause of lines
\* 276-278 runs first.
RaiseInTry(e) ==
    /\ pc' = "done"
    /\ result' = Raised(e)
    /\ tmpFiles' = IF cafile_path # None THEN tmpFiles \ {cafile_path}
                   ELSE tmpFiles

\* Line 257: open(path, "rb") of the next attachment.
OpenAttachment(ok) ==
    /\ pc = "open"
    /\ LET a == attachments[Len(files) + 1] IN
       IF ok
       THEN /\ fp' = a.path
            /\ pc' = "read"
            /\ UNCHANGED <<result, tmpFiles>>
       ELSE /\ fp' = None
            /\ RaiseBeforeTry("OSError:open")
    /\ UNCHANGED <<files, cafile_path, conn, request, sent, status_code, response>>
    /\ StepFrame

\* A read that leaves the handle open (no with block).
ReadAttachment_leaks(ok) ==
    /\ pc = "read"
    /\ LET a == attachments[Len(files) + 1] IN
       IF ok
       THEN /\ files' = Append(files, [field |-> a.field,
                                       filename |-> Basename(a.path),
                                       contents |-> FileContents(fp)])
            /\ pc' = IF Len(files) + 1 < Len(attachments) THEN "open" ELSE "trust"
            /\ UNCHANGED <<result, tmpFiles>>
       ELSE /\ RaiseBeforeTry("OSError:read")
            /\ UNCHANGED files
    /\ UNCHANGED <<fp, cafile_path, conn, request, sent, status_code, response>>
    /\ StepFrame

\* Lines 258-259 and the end of the with block: the whole file is read into
\* files[(field, filename)] and the handle is closed, also when read() raises.
ReadAttachment(ok) ==
    /\ pc = "read"
    /\ fp' = None
    /\ LET a == attachments[Len(files) + 1] IN
       IF ok
       THEN /\ files' = Append(files, [field |-> a.field,
                                       filename |-> Basename(a.path),
                                       contents |-> FileContents(fp)])
            /\ pc' = IF Len(files) + 1 < Len(attachments) THEN "open" ELSE "trust"
            /\ UNCHANGED <<result, tmpFiles>>
       ELSE /\ RaiseBeforeTry("OSError:read")
            /\ UNCHANGED files
    /\ UNCHANGED <<cafile_path, conn, request, sent, status_code, response>>
    /\ StepFrame

\* Lines 261-263: insecure mode stages no certificate.
SkipVerification ==
    /\ pc = "trust"
    /\ insecure
    /\ cafile_path' = None
    /\ pc' = "request"
    /\ UNCHANGED <<files, fp, conn, request, sent, status_code, response,
                   result, tmpFiles>>
    /\ StepFrame

\* Line 265: mkstemp creates the temporary file, or raises.
Mkstemp(ok) ==
    /\ pc = "trust"
    /\ ~insecure
    /\ IF ok
       THEN /\ cafile_path' = TmpName(ncalls)
            /\ tmpFiles' = tmpFiles \cup {TmpName(ncalls)}
            /\ pc' = "write"
            /\ UNCHANGED result
       ELSE /\ RaiseBeforeTry("OSError:mkstemp")
            /\ UNCHANGED cafile_path
    /\ UNCHANGED <<files, fp, conn, request, sent, status_code, response>>
    /\ StepFrame

\* Lines 266-267: the certificate is written and the descriptor closed;
\* these lines are outside the try statement.
WriteCertificate(ok) ==
    /\ pc = "write"
    /\ IF ok
       THEN /\ pc' = "request"
            /\ UNCHANGED <<result, tmpFiles>>
       ELSE RaiseBeforeTry("OSError:write")
    /\ UNCHANGED <<files, fp, cafile_path, conn, request, sent, status_code,
                   response>>
    /\ StepFrame

\* A context that adds the cafile to the system's trust anchors.
create_default_context_system(cafile) ==
    [ok |-> TRUE, exc |-> None, verify |-> TRUE,
     anchors |-> IF cafile # None THEN PinnedRoots \cup SystemRoots
                 ELSE SystemRoots]

\* ssl.create_default_context(cafile=...): the server certificate is
\* required and checked; with a cafile the trust anchors are those of the
\* file alone, without one they are the system's.
create_default_context(cafile) ==
    [ok |-> TRUE, exc |-> None, verify |-> TRUE,
     anchors |-> IF cafile # None THEN PinnedRoots ELSE SystemRoots]

\* Lines 131-143: the SSL context make_http_request builds. In the standard
\* library ssl._create_default_https_context is create_default_context; the
\* older branch cannot load a cafile of None.
ssl_context(modern, certificate) ==
    IF modern
    THEN IF certificate # None
         THEN create_default_context(certificate)
         ELSE create_default_context(None)
    ELSE IF certificate # None
         THEN [ok |-> TRUE, exc |-> None, verify |-> TRUE, anchors |-> PinnedRoots]
         ELSE [ok |-> FALSE, exc |-> "TypeError", verify |-> TRUE, anchors |-> {}]

\* The TLS handshake of connection.connect() accepts the peer.
HandshakeOk(ctx, peer) == ~ctx.verify \/ peer \in ctx.anchors

\* Lines 126-145 of make_http_request: the body is encoded, the context
\* built and the connection opened to a server whose chain ends in peer;
\* up is whether the host can be reached at all.
Connect(peer, up) ==
    /\ pc = "request"
    /\ request' = [made |-> TRUE, method |-> call.op,
                   data |-> IF data.isNone THEN <<>> ELSE data.items,
                   files |-> files]
    /\ LET ctx == ssl_context(py34, cafile_path) IN
       IF ~ctx.ok
       THEN /\ conn' = NoConn
            /\ RaiseInTry(ctx.exc)
       ELSE IF ~up
       THEN /\ conn' = [state |-> "unreachable", verify |-> ctx.verify,
                        anchors |-> ctx.anchors, peer |-> None]
            /\ RaiseInTry("OSError:connect")
       ELSE IF ~HandshakeOk(ctx, peer)
       THEN /\ conn' = [state |-> "rejected", verify |-> ctx.verify,
                        anchors |-> ctx.anchors, peer |-> peer]
            /\ RaiseInTry("SSLCertVerificationError")
       ELSE /\ conn' = [state |-> "connected", verify |-> ctx.verify,
                        anchors |-> ctx.anchors, peer |-> peer]
            /\ pc' = "send"
            /\ UNCHANGED <<result, tmpFiles>>
    /\ UNCHANGED <<files, fp, cafile_path, sent, status_code, response>>
    /\ StepFrame

\* The segments lines 147-154 put on the wire, in order.
Wire == <<"request-line", "headers", "body">>

\* Lines 147-154: n segments are written; the connection breaks after them
\* when n is less than all.
SendRequest(n) ==
    /\ pc = "send"
    /\ sent' = SubSeq(Wire, 1, n)
    /\ IF n = Len(Wire)
       THEN /\ pc' = "recv"
            /\ UNCHANGED <<result, tmpFiles>>
       ELSE RaiseInTry("OSError:send")
    /\ UNCHANGED <<files, fp, cafile_path, conn, request, status_code, response>>
    /\ StepFrame

\* Lines 156-158, then the finally clause of lines 276-278.
GetResponse(ok, st, body) ==
    /\ pc = "recv"
    /\ IF ok
       THEN /\ status_code' = st
            /\ response' = body
            /\ tmpFiles' = IF cafile_path # None THEN tmpFiles \ {cafile_path}
                           ELSE tmpFiles
            /\ pc' = "respond"
            /\ UNCHANGED result
       ELSE /\ RaiseInTry("OSError:recv")
            /\ UNCHANGED <<status_code, response>>
    /\ UNCHANGED <<files, fp, cafile_path, conn, request, sent>>
    /\ StepFrame

\* Lines 280-291: how _call_api ends once it has a response. Both debug
\* lines format response.decode() before the status is looked at.
_call_api_result(st, resp) ==
    IF ~DecodeOk(resp) THEN Raised("UnicodeDecodeError")
    ELSE IF st # 200 THEN Returned(PyNone)
    ELSE Returned([t |-> "bytes", bytes |-> resp])

\* Lines 295-299.
get_me_result(r) ==
    IF r.kind = "raise" THEN r
    ELSE IF r.v # PyNone
         THEN LET j == JsonResult(r.v.bytes) IN
              IF j.ok THEN Returned(j.v) ELSE Raised(j.exc)
    ELSE Returned(PyNone)

\* Lines 309, 320-323, 336-339: "is not None".
send_result(r) ==
    IF r.kind = "raise" THEN r ELSE Returned(PyBool(r.v # PyNone))

\* The response is interpreted and the operation returns to its caller.
Finish ==
    /\ pc = "respond"
    /\ LET r == _call_api_result(status_code, response) IN
       result' = IF call.op = "getMe" THEN get_me_result(r) ELSE send_result(r)
    /\ pc' = "done"
    /\ UNCHANGED <<files, fp, cafile_path, conn, request, sent, status_code,
                   response, tmpFiles>>
    /\ StepFrame

\* The caller has the result (or the exception); the call's locals are gone.
Return ==
    /\ pc = "done"
    /\ pc' = "idle" /\ call' = NoCall /\ data' = NoData /\ attachments' = <<>>
    /\ files' = <<>> /\ fp' = None /\ cafile_path' = Unset /\ conn' = NoConn
    /\ request' = NoRequest /\ sent' = <<>> /\ status_code' = 0
    /\ response' = <<>> /\ result' = NoResult
    /\ UNCHANGED <<session, py34, tmpFiles, ncalls, setterCalled,
                   encodeVars, uploadVars>>

Next ==
    \/ enable_insecure_connection
    \/ disable_notifications
    \/ enable_notifications
    \/ \E mode \in ParseModes : set_parse_mode(mode)
    \/ get_me
    \/ \E cid \in ChatIds, text \in Texts : send_message(cid, text)
    \/ \E cid \in ChatIds, path \in Paths, caption \in Captions :
         send_photo(cid, path, caption)
    \/ \E cid \in ChatIds, path \in Paths, caption \in Captions,
          streaming \in BOOLEAN : send_video(cid, path, caption, streaming)
    \/ \E ok \in BOOLEAN : OpenAttachment(ok)
    \/ \E ok \in BOOLEAN : ReadAttachment(ok)
    \/ SkipVerification
    \/ \E ok \in BOOLEAN : Mkstemp(ok)
    \/ \E ok \in BOOLEAN : WriteCertificate(ok)
    \/ \E peer \in ServerCerts, up \in BOOLEAN : Connect(peer, up)
    \/ \E n \in 0..Len(Wire) : SendRequest(n)
    \/ \E ok \in BOOLEAN, st \in Statuses, body \in Bodies : GetResponse(ok, st, body)
    \/ Finish
    \/ Return

Spec == Init /\ [][Next]_vars

-----------------------------------------------------------------------------
(* Properties of the client, checked under Spec. *)

SendOps == {"sendMessage", "sendPhoto", "sendVideo"}

\* C1: once the transport has returned a status and a body, the status alone
\* decides the outcome: 200 makes a send return True and get_me return the
\* "result" of the JSON body; any other status makes a send return False and
\* get_me return None, without raising.
C1_StatusDecidesOutcome ==
    (pc = "done" /\ status_code # 0) =>
        IF status_code = 200
        THEN IF call.op \in SendOps
             THEN result = Returned(PyBool(TRUE))
             ELSE JsonResult(response).ok
                      => result = Returned(JsonResult(response).v)
        ELSE IF call.op \in SendOps
             THEN result = Returned(PyBool(FALSE))
             ELSE result = Returned(PyNone)

\* C2: when a remote call has ended, in whatever way, the temporary
\* certificate file that call created no longer exists.
C2_TempFileRemoved ==
    pc = "done" => TmpName(ncalls) \notin tmpFiles

\* C3: in verify mode the connection's only trust anchor is the pinned
\* root; a server whose chain does not end in it makes the call raise with
\* no request bytes sent, and request bytes are only ever sent over a
\* connection validated against the pinned root.
C3_VerifyFailsClosed ==
    (pc # "idle" /\ ~insecure) =>
        /\ conn.state # "none" => (conn.verify /\ conn.anchors = PinnedRoots)
        /\ (conn.peer # None /\ conn.peer \notin PinnedRoots) =>
               /\ conn.state = "rejected"
               /\ sent = <<>>
               /\ pc = "done"
               /\ result.kind = "raise"
        /\ sent # <<>> => (conn.state = "connected" /\ conn.peer \in PinnedRoots)

\* C3 witness: a verify-mode call met a server with an unrelated chain.
C3_Witness ==
    /\ pc = "done" /\ ~insecure
    /\ conn.state = "rejected" /\ conn.peer = "otherca"
    /\ result = Raised("SSLCertVerificationError")

\* C4: in insecure mode the connection is opened without verifying the
\* server certificate, so the handshake with any server succeeds.
C4_InsecureSkipsValidation ==
    (pc # "idle" /\ insecure /\ request.made) =>
        /\ ~conn.verify
        /\ conn.state \in {"connected", "unreachable"}

\* What C5 says of a client no setter has touched, given the default of the
\* silence flag.
FreshClient(silentDefault) ==
    ~setterCalled =>
        /\ silent = silentDefault
        /\ parse_mode = None
        /\ ~insecure
        /\ (request.made /\ call.op \in SendOps) =>
               /\ DictHas(request.data, "disable_notifications")
               /\ DictGet(request.data, "disable_notifications")
                      = PyStr(IF silentDefault THEN "true" ELSE "false")
               /\ ~DictHas(request.data, "parse_mode")

\* C5 as stated: a fresh client has the silence flag on, no formatting mode
\* and trust mode verify, and its sends carry disable_notifications "true"
\* and no parse_mode.
C5_FreshClientSilent == FreshClient(TRUE)

\* C5 amended: a fresh client has the silence flag off, no formatting mode
\* and trust mode verify, and its sends carry disable_notifications "false"
\* and no parse_mode.
C5_FreshClientNotSilent == FreshClient(FALSE)

\* C5 witness: a send reached the encoder on a client no setter touched.
C5_Witness ==
    ~setterCalled /\ request.made /\ call.op = "sendMessage"

\* What C8 says of the field set handed to the encoder by a send, given
\* whether a formatting mode counts as set.
EnvelopeReflects(modeSet) ==
    (request.made /\ call.op \in SendOps) =>
        LET d == request.data IN
        /\ DictHas(d, "chat_id") /\ DictGet(d, "chat_id") = PyInt(chat_id)
        /\ DictHas(d, "disable_notifications")
        /\ DictGet(d, "disable_notifications")
               = PyStr(IF silent THEN "true" ELSE "false")
        /\ DictHas(d, "parse_mode") <=> modeSet
        /\ DictHas(d, "parse_mode") => DictGet(d, "parse_mode") = PyStr(parse_mode)
        /\ DictHas(d, "text") <=> call.op = "sendMessage"
        /\ DictHas(d, "text") => DictGet(d, "text") = PyStr(call.text)
        /\ DictHas(d, "caption") <=> Truthy(call.caption)
        /\ DictHas(d, "caption") => DictGet(d, "caption") = PyStr(call.caption)
        /\ DictHas(d, "supports_streaming")
               <=> (call.op = "sendVideo" /\ call.streaming)
        /\ \A i \in 1..Len(d) :
               d[i].k \in {"chat_id", "disable_notifications", "parse_mode",
                           "text", "caption", "supports_streaming"}

\* C8 as stated: the field set of a send reflects the session state and the
\* arguments, with parse_mode present iff a formatting mode has been set.
C8_EnvelopeReflectsState == EnvelopeReflects(parse_mode # None)

\* C8 amended: the same, with parse_mode present iff a non-empty formatting
\* mode is set.
C8_EnvelopeReflectsNonEmptyMode == EnvelopeReflects(Truthy(parse_mode))

\* C8 witness: a video with caption and streaming went to the encoder after
\* the setters had run, with a chat_id argument that is not the recipient.
C8_Witness ==
    /\ request.made /\ call.op = "sendVideo" /\ call.streaming
    /\ call.caption = "cap" /\ call.cid # chat_id
    /\ silent /\ parse_mode = "markdown"

\* C9: no step changes token or recipient id; no step of a remote operation
\* (its start included) changes the session state, whatever its outcome; and
\* a step that changes one of silence, formatting mode and trust mode leaves
\* the other two alone.
C9_OnlySettersChangeSession ==
    [][ /\ token' = token
        /\ chat_id' = chat_id
        /\ (pc # "idle" \/ pc' # "idle")
               => UNCHANGED <<insecure, silent, parse_mode>>
        /\ insecure' # insecure => UNCHANGED <<silent, parse_mode>>
        /\ silent' # silent => UNCHANGED <<insecure, parse_mode>>
        /\ parse_mode' # parse_mode => UNCHANGED <<insecure, silent>> ]_vars

\* C9 witness: after setters ran, a second operation ended by an exception
\* (the first had ended).
C9_Witness ==
    /\ setterCalled /\ silent /\ parse_mode = "markdown"
    /\ ncalls = 2 /\ pc = "done" /\ result.kind = "raise"

\* C10: once the request is being built or any network I/O has begun, every
\* attachment has been read completely and no attachment handle is open; and
\* a call that ended on a failure to open or read an attachment raised, sent
\* no request and created no temporary certificate file.
C10_AttachmentsBeforeNetwork ==
    /\ (request.made \/ conn.state # "none" \/ sent # <<>>) =>
           /\ fp = None
           /\ Len(files) = Len(attachments)
           /\ \A i \in 1..Len(files) :
                  files[i].contents = FileContents(attachments[i].path)
           /\ request.files = files
    /\ (pc = "done" /\ result.exc \in {"OSError:open", "OSError:read"}) =>
           /\ result.kind = "raise"
           /\ fp = None
           /\ ~request.made /\ conn.state = "none" /\ sent = <<>>
           /\ cafile_path = Unset
           /\ TmpName(ncalls) \notin tmpFiles

\* C10 witness: a photo was read and the request then went out.
C10_Witness ==
    /\ call.op = "sendPhoto" /\ Len(files) = 1 /\ sent = Wire

\* C10, second case reached: a read failure ended a call.
C10_ReadFailureReached ==
    pc = "done" /\ result = Raised("OSError:read")

-----------------------------------------------------------------------------
(* mimetypes.guess_type(name)[0], on the extensions the program meets.     *)

Lower(c) == IF c >= 65 /\ c <= 90 THEN c + 32 ELSE c

\* posixpath.splitext: the index of the dot that starts the extension, or 0.
\* The dot is the last one of the last path component, and some character
\* other than a dot precedes it in that component.
ExtDot(name) ==
    LET slashes == {i \in 1..Len(name) : name[i] = 47}
        base == IF slashes = {} THEN 1
                ELSE 1 + CHOOSE i \in slashes : \A j \in slashes : j <= i
        dots == {i \in base..Len(name) : name[i] = 46}
        last == IF dots = {} THEN 0
                ELSE CHOOSE i \in dots : \A j \in dots : j <= i
    IN IF last # 0 /\ \E i \in base..(last - 1) : name[i] # 46 THEN last ELSE 0

\* The media type of the extension, or None.
guess_type(name) ==
    LET d == ExtDot(name)
        ext == IF d = 0 THEN <<>>
               ELSE [i \in 1..(Len(name) - d) |-> Lower(name[d + i])]
    IN IF ext \in {<<106, 112, 103>>, <<106, 112, 101, 103>>, <<106, 112, 101>>}
       THEN "image/jpeg"                            \* jpg, jpeg, jpe
       ELSE IF ext = <<112, 110, 103>> THEN "image/png"
       ELSE IF ext = <<109, 112, 52>> THEN "video/mp4"
       ELSE None

-----------------------------------------------------------------------------
(* sanity_check_upload *)

MiB == 1024 * 1024
VIDEO_SIZE_LIMIT == 20 * 1024 * 1024
PHOTO_SIZE_LIMIT == 5 * 1024 * 1024

\* File sizes run up to this many MiB, and a little over.
MaxMiB == 21

TooBig(mb) == [kind |-> "raise", exc |-> "BadUploadError",
               v |-> [t |-> "too big", mb |-> mb]]
WrongType(expected, actual) ==
    [kind |-> "raise", exc |-> "BadUploadError",
     v |-> [t |-> "wrong type", expected |-> expected, actual |-> actual]]

\* A check whose size test also rejects a file of exactly the limit.
sanity_check_upload_inclusive(expected_mimetype, path_to_upload, limit, st_size) ==
    IF st_size >= limit
    THEN TooBig(st_size \div (1024 * 1024))
    ELSE LET actual_mimetype == guess_type(path_to_upload) IN
         IF actual_mimetype # expected_mimetype
         THEN WrongType(expected_mimetype, actual_mimetype)
         ELSE Returned(PyNone)

\* sanity_check_upload on an existing file of st_size bytes: how it ends.
sanity_check_upload(expected_mimetype, path_to_upload, limit, st_size) ==
    IF st_size > limit
    THEN TooBig(st_size \div (1024 * 1024))
    ELSE LET actual_mimetype == guess_type(path_to_upload) IN
         IF actual_mimetype # expected_mimetype
         THEN WrongType(expected_mimetype, actual_mimetype)
         ELSE Returned(PyNone)

UploadTypes == {"image/jpeg", "video/mp4"}
UploadLimits == {PHOTO_SIZE_LIMIT, VIDEO_SIZE_LIMIT}
UploadPaths == {
    <<47, 116, 109, 112, 47, 97, 46, 106, 112, 103>>,        \* /tmp/a.jpg
    <<47, 116, 109, 112, 47, 98, 46, 106, 112, 101, 103>>,   \* /tmp/b.jpeg
    <<47, 116, 109, 112, 47, 99, 46, 112, 110, 103>>,        \* /tmp/c.png
    <<47, 116, 109, 112, 47, 100, 46, 109, 112, 52>>,        \* /tmp/d.mp4
    <<47, 116, 109, 112, 47, 101>>,                          \* /tmp/e
    <<47, 116, 109, 112, 47, 102, 46, 74, 80, 71>> }         \* /tmp/f.JPG
UploadSizes ==
    {n \in {k * MiB + d : k \in 0..MaxMiB, d \in {-1, 0, 1, 524288}} : n >= 0}

\* The client, unused.
ClientOff ==
    /\ token = "123:abc" /\ chat_id = 1 /\ insecure = FALSE /\ silent = FALSE
    /\ parse_mode = None /\ py34 = TRUE /\ IdleCall
    /\ tmpFiles = {} /\ ncalls = 0 /\ setterCalled = FALSE

InitUpload ==
    /\ ClientOff
    /\ EncodeIdle
    /\ u_pc = "ready"
    /\ u_expected \in UploadTypes
    /\ u_path \in UploadPaths
    /\ u_size \in UploadSizes
    /\ u_limit \in UploadLimits
    /\ u_result = NoResult

CheckUpload ==
    /\ u_pc = "ready"
    /\ u_result' = sanity_check_upload(u_expected, u_path, u_limit, u_size)
    /\ u_pc' = "done"
    /\ UNCHANGED <<u_expected, u_path, u_size, u_limit, clientVars, encodeVars>>

NextUpload == CheckUpload

SpecUpload == InitUpload /\ [][NextUpload]_vars

\* C7: the check ends in exactly one of three ways: too big iff the size is
\* strictly over the limit, reporting floor(size / 1 MiB); else wrong type
\* iff the type guessed from the extension differs from the expected one;
\* else success. A 6 MiB file is reported as 6 MB against the 5 MiB limit,
\* a 4 MiB .jpg passes the JPEG check, a file of exactly the limit is not
\* too big.
C7_UploadOutcomes ==
    u_pc = "done" =>
        /\ u_result.kind = "raise" => u_result.v.t \in {"too big", "wrong type"}
        /\ (u_result.kind = "raise" /\ u_result.v.t = "too big")
               <=> u_size > u_limit
        /\ (u_result.kind = "raise" /\ u_result.v.t = "too big") =>
               /\ u_result.v.mb * MiB <= u_size
               /\ u_size < (u_result.v.mb + 1) * MiB
        /\ (u_result.kind = "raise" /\ u_result.v.t = "wrong type")
               <=> (u_size <= u_limit /\ guess_type(u_path) # u_expected)
        /\ u_result = Returned(PyNone)
               <=> (u_size <= u_limit /\ guess_type(u_path) = u_expected)
        /\ (u_size = 6 * MiB /\ u_limit = 5 * MiB) => u_result = TooBig(6)
        /\ (u_size = u_limit /\ u_expected = "video/mp4"
                /\ u_path = <<47, 116, 109, 112, 47, 100, 46, 109, 112, 52>>)
               => u_result = Returned(PyNone)
        /\ (u_size = 4 * MiB /\ u_limit = 5 * MiB /\ u_expected = "image/jpeg"
                /\ u_path = <<47, 116, 109, 112, 47, 97, 46, 106, 112, 103>>)
               => u_result = Returned(PyNone)
        /\ (u_expected = "video/mp4" /\ u_limit = 20 * MiB /\ u_size <= u_limit
                /\ u_path = <<47, 116, 109, 112, 47, 99, 46, 112, 110, 103>>)
               => u_result = WrongType("video/mp4", "image/png")

\* C7 witness: a file of exactly the limit passed, of the expected type.
C7_Witness ==
    /\ u_pc = "done" /\ u_size = u_limit /\ u_limit = PHOTO_SIZE_LIMIT
    /\ u_result = Returned(PyNone)

-----------------------------------------------------------------------------
(* encode_multipart_formdata, on bytes. A str is held as its UTF-8 bytes.  *)

CRLF == <<13, 10>>
DashDash == <<45, 45>>
Quote == <<34>>
\* Content-Disposition: form-data; name="
DispositionName ==
    <<67, 111, 110, 116, 101, 110, 116, 45, 68, 105, 115, 112, 111, 115, 105,
      116, 105, 111, 110, 58, 32, 102, 111, 114, 109, 45, 100, 97, 116, 97,
      59, 32, 110, 97, 109, 101, 61, 34>>
\* "; filename="
FilenameParam == <<34, 59, 32, 102, 105, 108, 101, 110, 97, 109, 101, 61, 34>>
\* Content-Type:
ContentTypeHeader == <<67, 111, 110, 116, 101, 110, 116, 45, 84, 121, 112, 101, 58, 32>>
\* Content-Length:
ContentLengthHeader ==
    <<67, 111, 110, 116, 101, 110, 116, 45, 76, 101, 110, 103, 116, 104, 58, 32>>

\* The bytes of a media type's name.
MimeBytes(type) ==
    IF type = "image/jpeg" THEN <<105, 109, 97, 103, 101, 47, 106, 112, 101, 103>>
    ELSE IF type = "image/png" THEN <<105, 109, 97, 103, 101, 47, 112, 110, 103>>
    ELSE IF type = "video/mp4" THEN <<118, 105, 100, 101, 111, 47, 109, 112, 52>>
    ELSE <<97, 112, 112, 108, 105, 99, 97, 116, 105, 111, 110, 47, 111, 99,
           116, 101, 116, 45, 115, 116, 114, 101, 97, 109>>   \* application/octet-stream

\* A str value, by its UTF-8 bytes.
PyText(bytes) == [t |-> "text", bytes |-> bytes]

RECURSIVE Digits(_)
Digits(n) == IF n < 10 THEN <<48 + n>> ELSE Digits(n \div 10) \o <<48 + (n % 10)>>

\* str(value), encoded.
Str(value) ==
    IF value.t = "text" THEN value.bytes
    ELSE IF value.t = "int"
         THEN (IF value.n < 0 THEN <<45>> \o Digits(0 - value.n) ELSE Digits(value.n))
    ELSE IF value.b THEN <<84, 114, 117, 101>>      \* True
    ELSE <<70, 97, 108, 115, 101>>                  \* False

\* sep.join(block)
RECURSIVE Join(_, _)
Join(block, sep) ==
    IF Len(block) = 0 THEN <<>>
    ELSE IF Len(block) = 1 THEN block[1]
    ELSE block[1] \o sep \o Join(Tail(block), sep)

\* Lines 182-188: the block of one field.
FieldBlock(boundary, key, value) ==
    Join(<<DashDash \o boundary,
           DispositionName \o key \o Quote,
           <<>>,
           Str(value)>>, CRLF)

\* A file block without the blank line that ends its headers.
FileBlock_no_blank_line(boundary, field, filename, contents) ==
    LET type == guess_type(filename)
        content_type == IF type # None THEN type ELSE "application/octet-stream"
    IN Join(<<DashDash \o boundary,
              DispositionName \o field \o FilenameParam \o filename \o Quote,
              ContentTypeHeader \o MimeBytes(content_type),
              ContentLengthHeader \o Digits(Len(contents)),
              <<>>>>, CRLF)
       \o contents

\* Lines 195-207: the block of one attachment, header lines then contents.
FileBlock(boundary, field, filename, contents) ==
    LET type == guess_type(filename)
        content_type == IF type # None THEN type ELSE "application/octet-stream"
    IN Join(<<DashDash \o boundary,
              DispositionName \o field \o FilenameParam \o filename \o Quote,
              ContentTypeHeader \o MimeBytes(content_type),
              ContentLengthHeader \o Digits(Len(contents)),
              <<>>>>, CRLF)
       \o CRLF \o contents

\* Lines 173-188: the loop over data.items(), from item i on; w is the
\* body written so far and the append_crlf flag.
RECURSIVE WriteFields(_, _, _, _)
WriteFields(w, d, i, boundary) ==
    IF i > Len(d) THEN w
    ELSE LET body == IF w.append_crlf THEN w.body \o CRLF ELSE w.body IN
         WriteFields([body |-> body \o FieldBlock(boundary, d[i].k, d[i].v),
                      append_crlf |-> TRUE], d, i + 1, boundary)

\* Lines 190-207: the loop over files.items().
RECURSIVE WriteFiles(_, _, _, _)
WriteFiles(w, fs, i, boundary) ==
    IF i > Len(fs) THEN w
    ELSE LET body == IF w.append_crlf THEN w.body \o CRLF ELSE w.body IN
         WriteFiles([body |-> body \o FileBlock(boundary, fs[i].field,
                                                fs[i].filename, fs[i].contents),
                     append_crlf |-> TRUE], fs, i + 1, boundary)

\* The body encode_multipart_formdata returns for the data dict d and the
\* files dict fs when random.choice yields boundary.
encode_multipart_formdata(d, fs, boundary) ==
    LET w0 == [body |-> <<>>, append_crlf |-> FALSE]
        w1 == WriteFields(w0, d, 1, boundary)
        w2 == WriteFiles(w1, fs, 1, boundary)
    IN w2.body \o CRLF \o DashDash \o boundary \o DashDash \o CRLF \o CRLF

-----------------------------------------------------------------------------
(* The inputs of the encoder. *)

\* Characters in a boundary: range(64), line 168.
BoundaryLen == 64
\* Chunks in the one part of an input that is varied freely.
MaxChunks == 2

\* The characters random.choice draws from: string.ascii_uppercase and
\* string.digits.
BoundaryAlphabet == (65..90) \cup (48..57)

\* Every boundary the code can return: 64 characters of the alphabet.
Boundaries == [1..BoundaryLen -> BoundaryAlphabet]

\* The boundary built when random.choice yields c and d in turn.
Drawn(c, d) == [i \in 1..BoundaryLen |-> IF i % 2 = 1 THEN c ELSE d]

\* What a varied value or content is made of: CR, LF, a dash, a byte that
\* is not UTF-8, and a delimiter line's text for two of the boundaries.
Chunks ==
    {<<13>>, <<10>>, <<45>>, <<255>>}
        \cup {DashDash \o Drawn(c, c) : c \in {65, 48}}

RECURSIVE Payloads(_)
Payloads(n) ==
    IF n = 0 THEN {<<>>}
    ELSE Payloads(n - 1) \cup {q \o c : q \in Payloads(n - 1), c \in Chunks}

\* Names that need escaping inside a quoted header parameter.
OddNames == {
    <<113, 34>>,                        \* q"
    <<101, 92>>,                        \* e\
    <<99, 13, 10, 100>>,                \* c CRLF d
    <<110, 13, 10, 13, 10, 122>>,       \* n CRLF CRLF z
    <<122, 46, 112, 110, 103>> }        \* z.png (needs none)

\* The parts that are not varied.
PlainData ==
    <<[k |-> <<97>>, v |-> PyInt(-12)],           \* a: -12
      [k |-> <<98>>, v |-> PyBool(TRUE)]>>        \* b: True
PlainFiles ==
    <<[field |-> <<112, 104, 111, 116, 111>>,     \* photo, p.jpg
       filename |-> <<112, 46, 106, 112, 103>>,
       contents |-> <<255, 216, 0>>],
      [field |-> <<118, 105, 100, 101, 111>>,     \* video, v
       filename |-> <<118>>,
       contents |-> <<>>]>>

\* Up to two fields and two attachments, with at most one part varied: its
\* value or contents over the payloads, or its name over the odd names.
InitEncode ==
    /\ ClientOff
    /\ UploadIdle
    /\ e_pc = "ready"
    /\ \E nf \in 0..2, na \in 0..2 :
         LET d == SubSeq(PlainData, 1, nf)
             fs == SubSeq(PlainFiles, 1, na)
         IN \/ e_data = d /\ e_files = fs
            \/ \E i \in 1..nf, t \in Payloads(MaxChunks) :
                 e_data = [d EXCEPT ![i].v = PyText(t)] /\ e_files = fs
            \/ \E i \in 1..nf, n \in OddNames :
                 e_data = [d EXCEPT ![i].k = n] /\ e_files = fs
            \/ \E j \in 1..na, t \in Payloads(MaxChunks) :
                 e_data = d /\ e_files = [fs EXCEPT ![j].contents = t]
            \/ \E j \in 1..na, n \in OddNames :
                 e_data = d /\ e_files = [fs EXCEPT ![j].filename = n]
    /\ e_boundary = <<>>
    /\ e_body = <<>>

\* A call of encode_multipart_formdata: the boundary is drawn, the body built.
Encode(boundary) ==
    /\ e_pc = "ready"
    /\ boundary \in Boundaries
    /\ e_boundary' = boundary
    /\ e_body' = encode_multipart_formdata(e_data, e_files, boundary)
    /\ e_pc' = "done"
    /\ UNCHANGED <<e_data, e_files, clientVars, uploadVars>>

\* The draws followed: one character throughout, or one alternating with 0.
NextEncode ==
    \E c \in BoundaryAlphabet : \E d \in {c, 48} : Encode(Drawn(c, d))

SpecEncode == InitEncode /\ [][NextEncode]_vars

-----------------------------------------------------------------------------
(* A reference multipart/form-data parser (RFC 2046, section 5.1.1): parts *)
(* lie between delimiter lines CRLF "--" boundary; a delimiter is followed *)
(* by CRLF, or by "--" when it closes the body; a part is header lines, a  *)
(* blank line and the content.                                             *)

\* The first index from `from` on at which pat occurs in t, or 0.
FindFrom(t, pat, from) ==
    LET hits == {i \in from..(Len(t) - Len(pat) + 1) : StartsAt(t, i, pat)}
    IN IF hits = {} THEN 0 ELSE CHOOSE i \in hits : \A j \in hits : i <= j

Occurs(pat, t) == FindFrom(t, pat, 1) # 0

\* The first delimiter line from `from` on, or 0.
NextDelimiter(t, delim, from) ==
    LET hits == {i \in from..(Len(t) - Len(delim) + 1) :
                    /\ StartsAt(t, i, delim)
                    /\ \/ StartsAt(t, i + Len(delim), CRLF)
                       \/ StartsAt(t, i + Len(delim), DashDash)}
    IN IF hits = {} THEN 0 ELSE CHOOSE i \in hits : \A j \in hits : i <= j

\* The value of the quoted parameter that marker opens, if present.
Param(headers, marker) ==
    LET i == FindFrom(headers, marker, 1)
        q == IF i = 0 THEN 0 ELSE FindFrom(headers, Quote, i + Len(marker))
    IN IF q = 0 THEN [has |-> FALSE, val |-> <<>>]
       ELSE [has |-> TRUE, val |-> SubSeq(headers, i + Len(marker), q - 1)]

\* One part: its headers up to the first blank line, then its content.
ParsePart(p) ==
    LET blank == FindFrom(p, CRLF \o CRLF, 1)
        headers == IF StartsAt(p, 1, CRLF) THEN <<>>
                   ELSE IF blank = 0 THEN p
                   ELSE SubSeq(p, 1, blank - 1)
        content == IF StartsAt(p, 1, CRLF) THEN SubSeq(p, 3, Len(p))
                   ELSE IF blank = 0 THEN <<>>
                   ELSE SubSeq(p, blank + 4, Len(p))
        name == Param(headers, <<32, 110, 97, 109, 101, 61, 34>>)   \*  name="
        filename == Param(headers,                              \*  filename="
                          <<32, 102, 105, 108, 101, 110, 97, 109, 101, 61, 34>>)
    IN [name |-> name.val, isFile |-> filename.has, filename |-> filename.val,
        content |-> content]

\* The parts from the delimiter line at pos on.
RECURSIVE ParseParts(_, _, _, _)
ParseParts(t, delim, pos, acc) ==
    LET after == pos + Len(delim) IN
    IF StartsAt(t, after, DashDash) THEN [ok |-> TRUE, parts |-> acc]
    ELSE LET start == after + 2
             nxt == NextDelimiter(t, delim, start)
         IN IF nxt = 0 THEN [ok |-> FALSE, parts |-> acc]
            ELSE ParseParts(t, delim, nxt,
                            Append(acc, ParsePart(SubSeq(t, start, nxt - 1))))

\* The parts of body; a boundary at the very start of the body counts as a
\* delimiter line.
Decode(body, boundary) ==
    LET t == CRLF \o body
        delim == CRLF \o DashDash \o boundary
        first == NextDelimiter(t, delim, 1)
    IN IF first = 0 THEN [ok |-> FALSE, parts |-> <<>>]
       ELSE ParseParts(t, delim, first, <<>>)

\* What decoding should give back: every field with its stringified value,
\* then every attachment with its bytes, in insertion order.
ExpectedParts(d, fs) ==
    [i \in 1..Len(d) |->
        [name |-> d[i].k, isFile |-> FALSE, filename |-> <<>>,
         content |-> Str(d[i].v)]]
    \o [i \in 1..Len(fs) |->
        [name |-> fs[i].field, isFile |-> TRUE, filename |-> fs[i].filename,
         content |-> fs[i].contents]]

RoundTrips ==
    LET dec == Decode(e_body, e_boundary) IN
    dec.ok /\ dec.parts = ExpectedParts(e_data, e_files)

\* A name that can stand unescaped between the quotes of a header parameter.
PlainName(n) == \A i \in 1..Len(n) : n[i] \notin {34, 92, 13, 10}

\* The inputs the encoder is documented to work for: names that need no
\* escaping, and no occurrence of the boundary in any name, value or content.
WellFormedInput ==
    /\ \A i \in 1..Len(e_data) :
           /\ PlainName(e_data[i].k)
           /\ ~Occurs(e_boundary, e_data[i].k)
           /\ ~Occurs(e_boundary, Str(e_data[i].v))
    /\ \A j \in 1..Len(e_files) :
           /\ PlainName(e_files[j].field)
           /\ PlainName(e_files[j].filename)
           /\ ~Occurs(e_boundary, e_files[j].field)
           /\ ~Occurs(e_boundary, e_files[j].filename)
           /\ ~Occurs(e_boundary, e_files[j].contents)

\* C6 as stated: for any field set and attachment set, decoding the body
\* with the returned boundary gives back exactly the stringified field
\* values and the attachment bytes, each part once, fields first, in
\* insertion order.
C6_RoundTripAnyInput == e_pc = "done" => RoundTrips

\* C6 amended: the same for inputs whose names contain no double quote,
\* backslash, CR or LF and in which the boundary occurs in no name, value or
\* attachment content.
C6_RoundTripWellFormedInput == (e_pc = "done" /\ WellFormedInput) => RoundTrips

\* C6 witness: two fields and two attachments were encoded, the second
\* attachment holding a line break.
C6_Witness ==
    /\ e_pc = "done" /\ WellFormedInput
    /\ Len(e_data) = 2 /\ Len(e_files) = 2
    /\ e_files[2].contents = <<13, 10>>

====
